---- MODULE Spec2Model ----
(***************************************************************************)
(* Transaction interpretation pipeline of the wallet monitor:              *)
(*   index.ts        onLogs callback, one asynchronous task per            *)
(*                   notification, one shared tokenMetadataCache           *)
(*   tx-handler.ts   processTransaction, processTransactionForTrades       *)
(*   token-utils.ts  fetchTokenNameAndDecimals, decodeMetaplexMetadata,    *)
(*                   fetchMintDecimals                                     *)
(* JavaScript runs one task at a time and switches tasks only at an await, *)
(* so an action is the code between two awaits of one task.                *)
(***************************************************************************)
EXTENDS Integers, Sequences, FiniteSets, TLC

(***************************************************************************)
(* Bounds of the model                                                     *)
(***************************************************************************)
\* number of notifications delivered, each one starting a processing task
MaxTasks == 2
\* largest uiAmount of a token balance entry
MaxAmount == 1

Tasks == 1..MaxTasks

(***************************************************************************)
(* Program constants                                                       *)
(***************************************************************************)
\* tx-handler.ts:22  "/ 1e9"
LAMPORTS_PER_SOL == 1000000000
\* token-utils.ts:72  1 + 32 + 32
METADATA_HEADER_LEN == 65
\* token-utils.ts:101  readUInt8(44)
MINT_DECIMALS_OFFSET == 44

\* index.ts:11  the watched wallet; OtherWallet is any counterparty
TARGET_WALLET == "W"
OtherWallet == "O"
Wallets == {TARGET_WALLET, OtherWallet}
Mints == {"A", "B"}

(***************************************************************************)
(* Values                                                                  *)
(***************************************************************************)
Min(a, b) == IF a <= b THEN a ELSE b
Abs(n) == IF n < 0 THEN 0 - n ELSE n
MinOf(S) == CHOOSE x \in S : \A y \in S : x <= y
MaxOf(S) == CHOOSE x \in S : \A y \in S : y <= x

\* Text is a sequence of byte values (ASCII: toString("utf8") maps each to
\* one character).
StrUnknown == <<85, 110, 107, 110, 111, 119, 110>>
StrUNKNOWN == <<85, 78, 75, 78, 79, 87, 78>>
StrSOL == <<83, 79, 76>>

\* token-utils.ts:62  the fallback value
Sentinel == [name |-> StrUnknown, symbol |-> StrUNKNOWN, decimals |-> 0]

\* uiAmount is number | null: <<>> is null, <<n>> the number n
UiAmounts == {<<>>} \cup {<<n>> : n \in 0..MaxAmount}

\* "x || 0" on a number | null | undefined (tx-handler.ts:50-51)
OrZero(a) == IF a = <<>> THEN 0 ELSE a[1]

(***************************************************************************)
(* Buffer primitives used by the decoder (token-utils.ts:68-104)           *)
(***************************************************************************)
\* Buffer.readUInt32LE(offset) throws RangeError unless 4 bytes are there
CanReadUInt32LE(data, offset) == offset + 4 <= Len(data)
readUInt32LE(data, offset) ==
    data[offset + 1] + 256 * data[offset + 2]
      + 65536 * data[offset + 3] + 16777216 * data[offset + 4]

\* Buffer.readUInt8(offset) throws RangeError unless the byte is there
CanReadUInt8(data, offset) == offset + 1 <= Len(data)
readUInt8(data, offset) == data[offset + 1]

\* Buffer.slice(start, end) clamps both ends to the buffer
slice(data, start, end) == SubSeq(data, Min(start, Len(data)) + 1, Min(end, Len(data)))

\* .replace(/\0/g, "") removes every NUL character
IsNotNul(b) == b # 0

\* mutant: only the NUL bytes at the end are removed
StripNulPadding(s) == SubSeq(s, 1, MaxOf({0} \cup {i \in 1..Len(s) : s[i] # 0}))

\* token-utils.ts:77, 85
StripNul(s) == SelectSeq(s, IsNotNul)

\* String.prototype.trim
WhiteSpace == {9, 10, 11, 12, 13, 32}
RECURSIVE TrimStart(_)
TrimStart(s) ==
    IF s # <<>> /\ Head(s) \in WhiteSpace THEN TrimStart(Tail(s)) ELSE s
RECURSIVE TrimEnd(_)
TrimEnd(s) ==
    IF s # <<>> /\ s[Len(s)] \in WhiteSpace
    THEN TrimEnd(SubSeq(s, 1, Len(s) - 1)) ELSE s
trim(s) == TrimEnd(TrimStart(s))

\* token-utils.ts:68-90.  threw = a RangeError left the function
decodeMetaplexMetadata(data) ==
    LET off1 == METADATA_HEADER_LEN
    IN  IF ~CanReadUInt32LE(data, off1)
        THEN [threw |-> TRUE, name |-> <<>>, symbol |-> <<>>]
        ELSE
          LET nameLength == readUInt32LE(data, off1)
              name == StripNul(slice(data, off1 + 4, off1 + 4 + nameLength))
              off2 == off1 + 4 + nameLength
          IN  IF ~CanReadUInt32LE(data, off2)
              THEN [threw |-> TRUE, name |-> <<>>, symbol |-> <<>>]
              ELSE
                LET symbolLength == readUInt32LE(data, off2)
                    symbol == StripNul(slice(data, off2 + 4, off2 + 4 + symbolLength))
                IN  [threw |-> FALSE, name |-> name, symbol |-> symbol]

(***************************************************************************)
(* Account records the account store may hold                              *)
(***************************************************************************)
LE32(n) == <<n % 256, (n \div 256) % 256, (n \div 65536) % 256, (n \div 16777216) % 256>>
Zeros(n) == [i \in 1..n |-> 0]
MkMetadata(name, symbol) ==
    Zeros(METADATA_HEADER_LEN) \o LE32(Len(name)) \o name \o LE32(Len(symbol)) \o symbol
MkMint(p) == Zeros(MINT_DECIMALS_OFFSET) \o <<p>> \o Zeros(37)

\* " Tk\0\0" and "TK\0": padded the way on-chain metadata is
RawName == <<32, 84, 107, 0, 0>>
RawSymbol == <<84, 75, 0>>
GoodMetadata == MkMetadata(RawName, RawSymbol)
\* cut inside the name bytes: the symbol length cannot be read
TruncatedMetadata == SubSeq(GoodMetadata, 1, METADATA_HEADER_LEN + 6)
MetadataRecords == {GoodMetadata, TruncatedMetadata, <<>>}

\* the byte at offset 44 of a mint record, and a record too short to have one
PrecisionBytes == {2, 101}
MintRecords == {MkMint(p) : p \in PrecisionBytes} \cup {Zeros(MINT_DECIMALS_OFFSET)}

\* getAccountInfo resolves to null, resolves to an account, or rejects
Absent == [kind |-> "absent", data |-> <<>>]
Failure == [kind |-> "error", data |-> <<>>]
Account(d) == [kind |-> "account", data |-> d]
MetadataResponses == {Absent, Failure} \cup {Account(d) : d \in MetadataRecords}
MintResponses == {Absent, Failure} \cup {Account(d) : d \in MintRecords}

(***************************************************************************)
(* Transactions the transaction fetch may return                           *)
(*   getParsedTransaction resolves to null or to a record whose meta may   *)
(*   be null.  walletIndex is the position of the watched wallet in the    *)
(*   transaction's account list; the code never reads it.                  *)
(***************************************************************************)
EmptyMeta ==
    [walletIndex |-> 0, preBalances |-> <<>>, postBalances |-> <<>>,
     preTokenBalances |-> <<>>, postTokenBalances |-> <<>>]
NotFoundTx == [found |-> FALSE, hasMeta |-> FALSE, meta |-> EmptyMeta]
NoMetaTx == [found |-> TRUE, hasMeta |-> FALSE, meta |-> EmptyMeta]

\* positions 0 and 1 of the account list are system accounts, 2 and 3 are
\* token accounts
TokenAccountIndexes == {2, 3}
NativeBalances == {1500000000, 2000000000}
NativeLists == [1..2 -> NativeBalances]

TokenEntries(indexes, owners, mints, amounts) ==
    [accountIndex : indexes, owner : owners, mint : mints, uiAmount : amounts]

\* the RPC node lists token balances by ascending accountIndex, one per account
EntryLists(E) ==
    LET k == Cardinality({e.accountIndex : e \in E})
        All == UNION {[1..n -> E] : n \in 0..k}
    IN  {s \in All : \A i \in 1..(Len(s) - 1) : s[i].accountIndex < s[i + 1].accountIndex}

Txs(walletIndexes, pres, posts, preTokens, postTokens) ==
    {[found |-> TRUE, hasMeta |-> TRUE, meta |-> m] :
        m \in [walletIndex : walletIndexes, preBalances : pres, postBalances : posts,
               preTokenBalances : preTokens, postTokenBalances : postTokens]}

AllEntryLists == EntryLists(TokenEntries(TokenAccountIndexes, Wallets, Mints, UiAmounts))

\* inputs of the balance delta engine: every native pre/post pair with the
\* wallet first or second, and every pair of token balance lists
EngineTxs ==
    Txs({0, 1}, NativeLists, NativeLists, {<<>>}, {<<>>})
      \cup Txs({0}, {<<2000000000, 2000000000>>},
               {<<2000000000, 2000000000>>, <<1500000000, 2000000000>>},
               AllEntryLists, AllEntryLists)

\* transactions of the whole pipeline: the wallet pays 0.5 SOL and either no
\* token balance changes or it receives token A in account 2 and token B in
\* account 3 (what one changed asset does is the first half of the latter)
PipelineEntries ==
    << [accountIndex |-> 2, owner |-> TARGET_WALLET, mint |-> "A", uiAmount |-> <<1>>],
       [accountIndex |-> 3, owner |-> TARGET_WALLET, mint |-> "B", uiAmount |-> <<1>>] >>
PipelineTxs ==
    {NotFoundTx, NoMetaTx}
      \cup Txs({0}, {<<2000000000, 2000000000>>}, {<<1500000000, 2000000000>>},
               {<<>>}, {<<>>, PipelineEntries})

(***************************************************************************)
(* Balance delta engine (tx-handler.ts:21-57)                              *)
(***************************************************************************)
\* a JavaScript number holding lamports / 1e9, kept as whole and fraction
ToSol(lamports) ==
    [whole |-> lamports \div LAMPORTS_PER_SOL, frac |-> lamports % LAMPORTS_PER_SOL]
\* postSolBalance - preSolBalance, in units of 1e-9 SOL
SolDifference(post, pre) ==
    (post.whole - pre.whole) * LAMPORTS_PER_SOL + (post.frac - pre.frac)
\* tx-handler.ts:22-24
solBalanceChange(meta) ==
    SolDifference(ToSol(meta.postBalances[1]), ToSol(meta.preBalances[1]))

\* tx-handler.ts:27 and :66
ActionOf(change) == IF change > 0 THEN "Bought" ELSE "Sold"

\* tx-handler.ts:26
NativeChanged(change) == change # 0

\* tx-handler.ts:26-31  the native line, if any
NativeLines(meta) ==
    LET change == solBalanceChange(meta)
    IN  IF NativeChanged(change)
        THEN << [asset |-> "SOL", action |-> ActionOf(change), amount |-> Abs(change),
                 digits |-> 9, name |-> StrSOL, symbol |-> StrSOL] >>
        ELSE <<>>

\* mutant: the owner filter is missing
OwnedByAnyone(postToken, targetWallet) == TRUE

\* tx-handler.ts:42
OwnedByTarget(postToken, targetWallet) == postToken.owner = targetWallet

\* mutant: the last entry of the account is taken
FindPreLast(preTokenBalances, tokenAccountIndex) ==
    LET I == {i \in 1..Len(preTokenBalances) :
                preTokenBalances[i].accountIndex = tokenAccountIndex}
    IN  IF I = {} THEN <<>> ELSE <<preTokenBalances[MaxOf(I)]>>

\* tx-handler.ts:46-48  Array.prototype.find: the first match, or undefined
FindPre(preTokenBalances, tokenAccountIndex) ==
    LET I == {i \in 1..Len(preTokenBalances) :
                preTokenBalances[i].accountIndex = tokenAccountIndex}
    IN  IF I = {} THEN <<>> ELSE <<preTokenBalances[MinOf(I)]>>

\* tx-handler.ts:50-52
BalanceChange(postToken, preTokenBalances) ==
    LET preBalanceEntry == FindPre(preTokenBalances, postToken.accountIndex)
        preBalance == IF preBalanceEntry = <<>> THEN 0
                      ELSE OrZero(preBalanceEntry[1].uiAmount)
        postBalance == OrZero(postToken.uiAmount)
    IN  postBalance - preBalance

\* mutant: unchanged balances are recorded too
RecordsAlways(balanceChange) == TRUE

\* tx-handler.ts:54
ShouldRecord(balanceChange) == balanceChange # 0

\* mutant: setting an existing key moves it to the end
MapSetMovesKey(map, mint, change) ==
    LET IsOther(e) == e.mint # mint
    IN  Append(SelectSeq(map, IsOther), [mint |-> mint, change |-> change])

\* mutant: an existing key keeps its first value
MapSetIfAbsent(map, mint, change) ==
    IF \E i \in 1..Len(map) : map[i].mint = mint THEN map
    ELSE Append(map, [mint |-> mint, change |-> change])

\* Map.prototype.set on an insertion-ordered Map kept as a sequence of
\* [mint, change]: an existing key keeps its position
MapSet(map, mint, change) ==
    LET I == {i \in 1..Len(map) : map[i].mint = mint}
    IN  IF I = {} THEN Append(map, [mint |-> mint, change |-> change])
        ELSE [i \in 1..Len(map) |->
                IF i \in I THEN [mint |-> mint, change |-> change] ELSE map[i]]

\* tx-handler.ts:38-57  the loop over postTokenBalances, from entry i on
RECURSIVE Aggregate(_, _, _, _, _)
Aggregate(postTokenBalances, preTokenBalances, targetWallet, i, map) ==
    IF i > Len(postTokenBalances) THEN map
    ELSE
      LET postToken == postTokenBalances[i]
          balanceChange == BalanceChange(postToken, preTokenBalances)
      IN  IF ~OwnedByTarget(postToken, targetWallet)
          THEN Aggregate(postTokenBalances, preTokenBalances, targetWallet, i + 1, map)
          ELSE IF ShouldRecord(balanceChange)
          THEN Aggregate(postTokenBalances, preTokenBalances, targetWallet, i + 1,
                         MapSet(map, postToken.mint, balanceChange))
          ELSE Aggregate(postTokenBalances, preTokenBalances, targetWallet, i + 1, map)

\* tx-handler.ts:34-57
TokenChanges(meta, targetWallet) ==
    Aggregate(meta.postTokenBalances, meta.preTokenBalances, targetWallet, 1, <<>>)

(***************************************************************************)
(* Metadata resolver (token-utils.ts:18-63, 95-104)                        *)
(* The code between two awaits yields one of: go on to the mint fetch,     *)
(* return a value, or throw.                                               *)
(***************************************************************************)
NoMetadata == [name |-> <<>>, symbol |-> <<>>]
Returns(v, stored, reason) ==
    [next |-> "return", value |-> v, store |-> stored, metadata |-> NoMetadata,
     why |-> reason]
Throws(reason) ==
    [next |-> "throw", value |-> Sentinel, store |-> FALSE, metadata |-> NoMetadata,
     why |-> reason]
FetchesMint(m) ==
    [next |-> "fetchMint", value |-> Sentinel, store |-> FALSE, metadata |-> m,
     why |-> "decoded"]

\* mutant: the lookup never finds the key
CacheNeverHit(cache, mintAddress) == FALSE

\* token-utils.ts:23
CacheHit(cache, mintAddress) == mintAddress \in DOMAIN cache
\* token-utils.ts:24
CacheGet(cache, mintAddress) == cache[mintAddress]
\* mutant: the cache keeps the newest entry only
CacheSetEvicting(cache, mintAddress, tokenData) ==
    [k \in {mintAddress} |-> tokenData]

\* token-utils.ts:51  Map.prototype.set
CacheSet(cache, mintAddress, tokenData) ==
    [k \in DOMAIN cache \cup {mintAddress} |->
        IF k = mintAddress THEN tokenData ELSE cache[k]]

\* mutant: the exception is not caught
NoCatch(r) == r

\* token-utils.ts:27, 55-62  try { ... } catch { log }; return the fallback
TryCatch(r) == IF r.next = "throw" THEN Returns(Sentinel, FALSE, r.why) ELSE r

\* mutant: the fallback for an absent record is stored in the cache
OnMetadataInfoCaching(accountInfo) ==
    IF accountInfo.kind = "error" THEN Throws("fetch-error")
    ELSE IF accountInfo.kind = "absent" THEN Returns(Sentinel, TRUE, "absent")
    ELSE LET metadata == decodeMetaplexMetadata(accountInfo.data)
         IN  IF metadata.threw THEN Throws("decode-error")
             ELSE FetchesMint([name |-> metadata.name, symbol |-> metadata.symbol])

\* mutant: the mint record is fetched although the metadata record is absent
OnMetadataInfoFetchesMint(accountInfo) ==
    IF accountInfo.kind = "error" THEN Throws("fetch-error")
    ELSE IF accountInfo.kind = "absent" THEN FetchesMint(NoMetadata)
    ELSE LET metadata == decodeMetaplexMetadata(accountInfo.data)
         IN  IF metadata.threw THEN Throws("decode-error")
             ELSE FetchesMint([name |-> metadata.name, symbol |-> metadata.symbol])

\* token-utils.ts:40-43  after "await connection.getAccountInfo(metadataPDA)"
OnMetadataInfo(accountInfo) ==
    IF accountInfo.kind = "error" THEN Throws("fetch-error")
    ELSE IF accountInfo.kind = "absent" THEN Returns(Sentinel, FALSE, "absent")
    ELSE LET metadata == decodeMetaplexMetadata(accountInfo.data)
         IN  IF metadata.threw THEN Throws("decode-error")
             ELSE FetchesMint([name |-> metadata.name, symbol |-> metadata.symbol])

\* mutant: the data of an absent mint record is read
fetchMintDecimalsUnguarded(accountInfo) ==
    IF accountInfo.kind = "error" THEN [threw |-> TRUE, decimals |-> 0]
    ELSE IF accountInfo.kind = "absent" THEN [threw |-> TRUE, decimals |-> 0]
    ELSE IF CanReadUInt8(accountInfo.data, MINT_DECIMALS_OFFSET)
    THEN [threw |-> FALSE, decimals |-> readUInt8(accountInfo.data, MINT_DECIMALS_OFFSET)]
    ELSE [threw |-> TRUE, decimals |-> 0]

\* token-utils.ts:99-103  after "await connection.getAccountInfo(mintPublicKey)"
fetchMintDecimals(accountInfo) ==
    IF accountInfo.kind = "error" THEN [threw |-> TRUE, decimals |-> 0]
    ELSE IF accountInfo.kind = "absent" THEN [threw |-> FALSE, decimals |-> 0]
    ELSE IF CanReadUInt8(accountInfo.data, MINT_DECIMALS_OFFSET)
    THEN [threw |-> FALSE, decimals |-> readUInt8(accountInfo.data, MINT_DECIMALS_OFFSET)]
    ELSE [threw |-> TRUE, decimals |-> 0]

\* token-utils.ts:46-50
TokenData(metadata, decimals) ==
    [name |-> trim(metadata.name), symbol |-> trim(metadata.symbol), decimals |-> decimals]

\* token-utils.ts:44-53
OnMintInfo(accountInfo, metadata) ==
    LET d == fetchMintDecimals(accountInfo)
    IN  IF d.threw THEN Throws("mint-error")
        ELSE Returns(TokenData(metadata, d.decimals), TRUE, "resolved")

\* tx-handler.ts:68  Number.prototype.toFixed throws RangeError outside 0..100
ToFixedThrows(decimals) == decimals < 0 \/ decimals > 100

\* tx-handler.ts:66-71
TokenLine(entry, data) ==
    [asset |-> entry.mint, action |-> ActionOf(entry.change), amount |-> Abs(entry.change),
     digits |-> data.decimals, name |-> data.name, symbol |-> data.symbol]

(***************************************************************************)
(* State                                                                   *)
(***************************************************************************)
VARIABLES
    tokenMetadataCache, \* index.ts:24       the shared Map, as a function on its keys
    pc,                 \* per task: where the task is suspended
    tx,                 \* per task: the record getParsedTransaction returned
    tokenChanges,       \* per task: tx-handler.ts:34, in insertion order
    pos,                \* per task: the entry of tokenChanges being emitted
    metadata,           \* per task: token-utils.ts:43, live across the mint fetch
    ret,                \* per task: the value fetchTokenNameAndDecimals resolved to
    why,                \* per task: how the current resolve ended
    lines,              \* per task: the lines written by console.log
    fetches,            \* per task: number of getAccountInfo calls issued
    err,                \* per task: what console.error reported or what rejected
    data,               \* token-utils.ts:68  the buffer handed to the decoder
    decoded             \* token-utils.ts:42-50  what became of it

vars == <<tokenMetadataCache, pc, tx, tokenChanges, pos, metadata, ret, why, lines,
          fetches, err, data, decoded>>

\* the variables of the decoder run on its own
decoderVars == <<data, decoded>>

\* the variables of task t
Local(t) == <<pc[t], tx[t], tokenChanges[t], pos[t], metadata[t], ret[t], why[t],
              lines[t], fetches[t], err[t]>>

EmptyCache == [k \in {} |-> Sentinel]

\* no buffer has been decoded
NotDecoded == [stage |-> "input", name |-> <<>>, symbol |-> <<>>]

InitTasks ==
    /\ tokenMetadataCache = EmptyCache
    /\ pc = [t \in Tasks |-> "idle"]
    /\ tx = [t \in Tasks |-> NotFoundTx]
    /\ tokenChanges = [t \in Tasks |-> <<>>]
    /\ pos = [t \in Tasks |-> 0]
    /\ metadata = [t \in Tasks |-> NoMetadata]
    /\ ret = [t \in Tasks |-> Sentinel]
    /\ why = [t \in Tasks |-> "none"]
    /\ lines = [t \in Tasks |-> <<>>]
    /\ fetches = [t \in Tasks |-> 0]
    /\ err = [t \in Tasks |-> "none"]

Init ==
    /\ InitTasks
    /\ data = <<>>
    /\ decoded = NotDecoded

(***************************************************************************)
(* Steps of a task                                                         *)
(***************************************************************************)
\* mutant: an entry whose resolve gave the fallback is resolved again
IterateRetrying(t, changes, i) ==
    LET j == IF i > 1 /\ ret[t] = Sentinel THEN i - 1 ELSE i
    IN  /\ pos' = [pos EXCEPT ![t] = j]
        /\ IF j > Len(changes)
           THEN /\ pc' = [pc EXCEPT ![t] = "done"]
                /\ ret' = [ret EXCEPT ![t] = Sentinel]
                /\ why' = [why EXCEPT ![t] = "none"]
           ELSE IF CacheHit(tokenMetadataCache, changes[j].mint)
           THEN /\ pc' = [pc EXCEPT ![t] = "awaitResolve"]
                /\ ret' = [ret EXCEPT ![t] = CacheGet(tokenMetadataCache, changes[j].mint)]
                /\ why' = [why EXCEPT ![t] = "hit"]
           ELSE /\ pc' = [pc EXCEPT ![t] = "awaitPDA"]
                /\ ret' = [ret EXCEPT ![t] = Sentinel]
                /\ why' = [why EXCEPT ![t] = "miss"]

\* tx-handler.ts:60-65 with token-utils.ts:23-38: the loop of
\* processTransactionForTrades reaches entry i of the changes and runs
\* fetchTokenNameAndDecimals up to its first await.  ret, why and metadata
\* are locals of one resolve: they are cleared when it is over.
Iterate(t, changes, i) ==
    /\ pos' = [pos EXCEPT ![t] = i]
    /\ IF i > Len(changes)
       THEN /\ pc' = [pc EXCEPT ![t] = "done"]
            /\ ret' = [ret EXCEPT ![t] = Sentinel]
            /\ why' = [why EXCEPT ![t] = "none"]
       ELSE IF CacheHit(tokenMetadataCache, changes[i].mint)
       THEN /\ pc' = [pc EXCEPT ![t] = "awaitResolve"]
            /\ ret' = [ret EXCEPT ![t] = CacheGet(tokenMetadataCache, changes[i].mint)]
            /\ why' = [why EXCEPT ![t] = "hit"]
       ELSE /\ pc' = [pc EXCEPT ![t] = "awaitPDA"]
            /\ ret' = [ret EXCEPT ![t] = Sentinel]
            /\ why' = [why EXCEPT ![t] = "miss"]

\* mutant: a notification is taken up when the tasks before it have finished
NotifyInTurn(t) ==
    /\ pc[t] = "idle"
    /\ \A u \in Tasks : u < t => pc[u] \in {"done", "rejected"}
    /\ pc' = [pc EXCEPT ![t] = "awaitTx"]
    /\ UNCHANGED <<tokenMetadataCache, tx, tokenChanges, pos, metadata, ret, why, lines,
                   fetches, err>>
    /\ UNCHANGED decoderVars

\* index.ts:43-50, tx-handler.ts:87  the onLogs callback starts a task, which
\* suspends in getParsedTransaction.  Tasks are numbered in arrival order.
Notify(t) ==
    /\ pc[t] = "idle"
    /\ \A u \in Tasks : u < t => pc[u] # "idle"
    /\ pc' = [pc EXCEPT ![t] = "awaitTx"]
    /\ UNCHANGED <<tokenMetadataCache, tx, tokenChanges, pos, metadata, ret, why, lines,
                   fetches, err>>
    /\ UNCHANGED decoderVars

\* mutant: the null check of the fetched transaction is missing
TxAlwaysFound(r) == TRUE

\* tx-handler.ts:92
TxFound(r) == r.found
\* tx-handler.ts:14
HasMeta(r) == r.hasMeta

\* tx-handler.ts:87-102 and 14-65  getParsedTransaction resolves to r
TxReturn(t, results) ==
    /\ pc[t] = "awaitTx"
    /\ \E r \in results :
        /\ tx' = [tx EXCEPT ![t] = r]
        /\ IF ~TxFound(r)
           THEN /\ err' = [err EXCEPT ![t] = "TransactionNotFound"]
                /\ pc' = [pc EXCEPT ![t] = "done"]
                /\ UNCHANGED <<tokenChanges, pos, ret, why, lines>>
           ELSE IF ~HasMeta(r)
           THEN /\ err' = [err EXCEPT ![t] = "MissingTransactionMeta"]
                /\ pc' = [pc EXCEPT ![t] = "done"]
                /\ UNCHANGED <<tokenChanges, pos, ret, why, lines>>
           ELSE LET changes == TokenChanges(r.meta, TARGET_WALLET)
                IN  /\ lines' = [lines EXCEPT ![t] = NativeLines(r.meta)]
                    /\ tokenChanges' = [tokenChanges EXCEPT ![t] = changes]
                    /\ Iterate(t, changes, 1)
                    /\ UNCHANGED err
    /\ UNCHANGED <<tokenMetadataCache, metadata, fetches>>
    /\ UNCHANGED decoderVars

\* tx-handler.ts:87  getParsedTransaction rejects: processTransaction and the
\* callback reject, nothing catches it
TxFetchFails(t) ==
    /\ pc[t] = "awaitTx"
    /\ pc' = [pc EXCEPT ![t] = "rejected"]
    /\ err' = [err EXCEPT ![t] = "TransactionFetch"]
    /\ UNCHANGED <<tokenMetadataCache, tx, tokenChanges, pos, metadata, ret, why, lines,
                   fetches>>
    /\ UNCHANGED decoderVars

\* the resolver's code between two awaits ended with r (after its try/catch)
Continue(t, r) ==
    /\ why' = [why EXCEPT ![t] = r.why]
    /\ metadata' = [metadata EXCEPT ![t] = r.metadata]
    /\ IF r.next = "fetchMint"
       THEN /\ pc' = [pc EXCEPT ![t] = "awaitMint"]
            /\ fetches' = [fetches EXCEPT ![t] = @ + 1]
            /\ UNCHANGED <<tokenMetadataCache, ret, err>>
       ELSE IF r.next = "return"
       THEN /\ pc' = [pc EXCEPT ![t] = "awaitResolve"]
            /\ ret' = [ret EXCEPT ![t] = r.value]
            /\ tokenMetadataCache' =
                 IF r.store
                 THEN CacheSet(tokenMetadataCache, tokenChanges[t][pos[t]].mint, r.value)
                 ELSE tokenMetadataCache
            /\ UNCHANGED <<fetches, err>>
       ELSE /\ pc' = [pc EXCEPT ![t] = "rejected"]
            /\ err' = [err EXCEPT ![t] = "resolve"]
            /\ UNCHANGED <<tokenMetadataCache, ret, fetches>>
    /\ UNCHANGED <<tx, tokenChanges, pos, lines>>
    /\ UNCHANGED decoderVars

\* token-utils.ts:28-40  new PublicKey and findProgramAddress succeed, the
\* metadata record is requested; or one of them throws
AfterDerivation(ok) ==
    IF ok THEN [next |-> "fetchMetadata", why |-> "derived"] ELSE Throws("derive-error")

PDAReturn(t) ==
    /\ pc[t] = "awaitPDA"
    /\ \E ok \in BOOLEAN :
         LET r == TryCatch(AfterDerivation(ok))
         IN  IF r.next = "fetchMetadata"
             THEN /\ pc' = [pc EXCEPT ![t] = "awaitMeta"]
                  /\ fetches' = [fetches EXCEPT ![t] = @ + 1]
                  /\ why' = [why EXCEPT ![t] = r.why]
                  /\ UNCHANGED <<tokenMetadataCache, tx, tokenChanges, pos, metadata, ret,
                                 lines, err>>
                  /\ UNCHANGED decoderVars
             ELSE Continue(t, r)

\* token-utils.ts:40-44  getAccountInfo(metadataPDA) settles
MetaReturn(t) ==
    /\ pc[t] = "awaitMeta"
    /\ \E accountInfo \in MetadataResponses :
         Continue(t, TryCatch(OnMetadataInfo(accountInfo)))

\* token-utils.ts:99-104, 44-53  getAccountInfo(mintPublicKey) settles
MintReturn(t) ==
    /\ pc[t] = "awaitMint"
    /\ \E accountInfo \in MintResponses :
         Continue(t, TryCatch(OnMintInfo(accountInfo, metadata[t])))

\* tx-handler.ts:61-72  fetchTokenNameAndDecimals has resolved: format the
\* line, then go round the loop
Resume(t) ==
    /\ pc[t] = "awaitResolve"
    /\ IF ToFixedThrows(ret[t].decimals)
       THEN /\ pc' = [pc EXCEPT ![t] = "rejected"]
            /\ err' = [err EXCEPT ![t] = "toFixed"]
            /\ UNCHANGED <<pos, ret, why, lines>>
       ELSE /\ lines' = [lines EXCEPT ![t] = Append(@, TokenLine(tokenChanges[t][pos[t]], ret[t]))]
            /\ Iterate(t, tokenChanges[t], pos[t] + 1)
            /\ UNCHANGED err
    /\ UNCHANGED <<tokenMetadataCache, tx, tokenChanges, metadata, fetches>>
    /\ UNCHANGED decoderVars

Next ==
    \E t \in Tasks :
        \/ Notify(t)
        \/ TxReturn(t, PipelineTxs)
        \/ TxFetchFails(t)
        \/ PDAReturn(t)
        \/ MetaReturn(t)
        \/ MintReturn(t)
        \/ Resume(t)

\* the whole pipeline, tasks interleaved at their awaits
Spec == Init /\ [][Next]_vars

\* the balance delta engine alone: one task, run up to its first resolve
NextEngine ==
    \/ Notify(1)
    \/ TxReturn(1, EngineTxs)

SpecEngine == Init /\ [][NextEngine]_vars

(***************************************************************************)
(* One transaction through the whole pipeline, with up to three token      *)
(* accounts of the watched wallet (tx-handler.ts:21-72)                    *)
(***************************************************************************)
OrderAccountIndexes == {2, 3, 4}
OrderEntryLists ==
    EntryLists(TokenEntries(OrderAccountIndexes, {TARGET_WALLET}, Mints, UiAmounts))
OrderTxs ==
    Txs({0}, {<<2000000000, 2000000000>>},
        {<<2000000000, 2000000000>>, <<1500000000, 2000000000>>},
        {<<>>}, OrderEntryLists)

NextOrder ==
    \/ Notify(1)
    \/ TxReturn(1, OrderTxs)
    \/ PDAReturn(1)
    \/ MetaReturn(1)
    \/ MintReturn(1)
    \/ Resume(1)

SpecOrder == Init /\ [][NextOrder]_vars

(***************************************************************************)
(* Concurrent tasks whose fetches may or may not settle                    *)
(* (index.ts:41-53, tx-handler.ts:81-103)                                  *)
(***************************************************************************)
\* a task's transaction is absent, lacks its meta section, changes no token
\* balance or changes token A of the wallet
StallTxs ==
    {NotFoundTx, NoMetaTx}
      \cup Txs({0}, {<<2000000000, 2000000000>>}, {<<1500000000, 2000000000>>},
               {<<>>}, {<<>>, SubSeq(PipelineEntries, 1, 1)})

\* the promise task t is suspended on settles and its continuation runs;
\* results are the transactions getParsedTransaction may resolve to
Settle(t, results) ==
    \/ TxReturn(t, results)
    \/ TxFetchFails(t)
    \/ PDAReturn(t)
    \/ MetaReturn(t)
    \/ MintReturn(t)
    \/ Resume(t)

NextStall ==
    \E t \in Tasks :
        \/ Notify(t)
        \/ TxReturn(t, StallTxs)
        \/ TxFetchFails(t)
        \/ PDAReturn(t)
        \/ MetaReturn(t)
        \/ MintReturn(t)
        \/ Resume(t)

\* every notification is delivered and its callback runs; whether a fetch
\* ever returns is left open
SpecStall ==
    /\ Init
    /\ [][NextStall]_vars
    /\ \A t \in Tasks : WF_vars(Notify(t))

(***************************************************************************)
(* One task all of whose fetches return (tx-handler.ts:81-103, 8-75)       *)
(***************************************************************************)
TaskTxs == {NotFoundTx, NoMetaTx} \cup OrderTxs

NextTask ==
    \/ Notify(1)
    \/ TxReturn(1, TaskTxs)
    \/ TxFetchFails(1)
    \/ PDAReturn(1)
    \/ MetaReturn(1)
    \/ MintReturn(1)
    \/ Resume(1)

\* the notification is delivered, every fetch the task issues returns and
\* the event loop runs what it resumes
SpecTask ==
    /\ Init
    /\ [][NextTask]_vars
    /\ WF_vars(Notify(1))
    /\ WF_vars(Settle(1, TaskTxs))

(***************************************************************************)
(* The pairing of post-state with pre-state entries (tx-handler.ts:38-57): *)
(* the code takes preTokenBalances as it comes, so a pre-state list here   *)
(* may name account 2 twice                                                *)
(***************************************************************************)
\* pre-state entries: account 2 as another wallet's account of B or as the
\* wallet's account of A, account 3 as the wallet's account of A
PairingPreEntries ==
    TokenEntries({2}, {OtherWallet}, {"B"}, UiAmounts)
      \cup TokenEntries(TokenAccountIndexes, {TARGET_WALLET}, {"A"}, UiAmounts)
\* an ascending list, or one with another entry of account 2 put before it
PairingPreLists ==
    EntryLists(PairingPreEntries)
      \cup {<<e>> \o l : e \in {d \in PairingPreEntries : d.accountIndex = 2},
                         l \in EntryLists(PairingPreEntries)}
PairingPostLists ==
    EntryLists(TokenEntries(TokenAccountIndexes, {TARGET_WALLET}, Mints, UiAmounts))
PairingTxs ==
    Txs({0}, {<<2000000000, 2000000000>>}, {<<2000000000, 2000000000>>},
        PairingPreLists, PairingPostLists)

NextPairing ==
    \/ Notify(1)
    \/ TxReturn(1, PairingTxs)

SpecPairing == Init /\ [][NextPairing]_vars

(***************************************************************************)
(* The metadata decoder on its own (token-utils.ts:42-50, 68-90)           *)
(***************************************************************************)
\* longest name or symbol field of the buffers decoded
MaxFieldLen == 2
\* NUL, space and "T"
FieldBytes == {0, 32, 84}
Fields == UNION {[1..n -> FieldBytes] : n \in 0..MaxFieldLen}
\* the 65 bytes before the name: key, update authority, mint
Headers == {Zeros(METADATA_HEADER_LEN), <<4>> \o Zeros(METADATA_HEADER_LEN - 1)}
\* what follows the symbol in the account: nothing, or the start of the uri
Trailers == {<<>>, <<1>>}
MkRecord(header, name, symbol, trailer) ==
    header \o LE32(Len(name)) \o name \o LE32(Len(symbol)) \o symbol \o trailer
WholeRecords ==
    {MkRecord(h, n, s, tr) : h \in Headers, n \in Fields, s \in Fields, tr \in Trailers}
\* a record cut anywhere from inside the header's last byte onwards
CutRecords ==
    UNION {{SubSeq(b, 1, k) : k \in (METADATA_HEADER_LEN - 1)..(Len(b) - 1)} :
              b \in WholeRecords}
DecoderBuffers == WholeRecords \cup CutRecords

taskVars == <<tokenMetadataCache, pc, tx, tokenChanges, pos, metadata, ret, why, lines,
              fetches, err>>

InitDecoder ==
    /\ InitTasks
    /\ data \in DecoderBuffers
    /\ decoded = NotDecoded

\* token-utils.ts:42  const metadata = decodeMetaplexMetadata(accountInfo.data)
Decode ==
    /\ decoded.stage = "input"
    /\ LET m == decodeMetaplexMetadata(data)
       IN  decoded' = IF m.threw
                      THEN [stage |-> "threw", name |-> <<>>, symbol |-> <<>>]
                      ELSE [stage |-> "decoded", name |-> m.name, symbol |-> m.symbol]
    /\ UNCHANGED data
    /\ UNCHANGED taskVars

\* token-utils.ts:46-50  the name and symbol of tokenData
AssembleTokenData ==
    /\ decoded.stage = "decoded"
    /\ LET tokenData == TokenData(decoded, 0)
       IN  decoded' = [stage |-> "trimmed", name |-> tokenData.name,
                       symbol |-> tokenData.symbol]
    /\ UNCHANGED data
    /\ UNCHANGED taskVars

NextDecoder ==
    \/ Decode
    \/ AssembleTokenData

SpecDecoder == InitDecoder /\ [][NextDecoder]_vars

TypeOK ==
    /\ DOMAIN tokenMetadataCache \subseteq Mints
    /\ \A t \in Tasks :
         pc[t] \in {"idle", "awaitTx", "awaitPDA", "awaitMeta", "awaitMint",
                    "awaitResolve", "done", "rejected"}

(***************************************************************************)
(* Vocabulary of the properties                                            *)
(***************************************************************************)
\* task t ran the balance delta engine on a transaction with a meta section
Processed(t) == pc[t] \notin {"idle", "awaitTx"} /\ tx[t].found /\ tx[t].hasMeta
\* task t has stopped
Finished(t) == pc[t] \in {"done", "rejected"}
\* task t is suspended inside fetchTokenNameAndDecimals or has just left it
InResolve(t) == pc[t] \in {"awaitPDA", "awaitMeta", "awaitMint", "awaitResolve"}
\* the identifier task t is resolving
CurrentMint(t) == tokenChanges[t][pos[t]].mint
\* the per-asset lines of task t
IsTokenLine(l) == l.asset # "SOL"
TokenLines(t) == SelectSeq(lines[t], IsTokenLine)
NativeLinesOf(t) == {i \in 1..Len(lines[t]) : lines[t][i].asset = "SOL"}

PostOf(t) == tx[t].meta.postTokenBalances
PreOf(t) == tx[t].meta.preTokenBalances
\* positions of the post-state entries of mint m owned by the watched wallet
OwnedEntries(t, m) ==
    {i \in 1..Len(PostOf(t)) : PostOf(t)[i].owner = TARGET_WALLET /\ PostOf(t)[i].mint = m}
\* post amount minus the amount of the pre-state entry of the same account
ChangeOfEntry(t, i) ==
    LET post == PostOf(t)[i]
        I == {j \in 1..Len(PreOf(t)) : PreOf(t)[j].accountIndex = post.accountIndex}
        pre == IF I = {} THEN 0 ELSE OrZero(PreOf(t)[MinOf(I)].uiAmount)
    IN  OrZero(post.uiAmount) - pre
\* positions of the recorded deltas of mint m
DeltasOf(t, m) == {i \in 1..Len(tokenChanges[t]) : tokenChanges[t][i].mint = m}

\* what the wallet holds of mint m in a list of token balances
RECURSIVE Holding(_, _)
Holding(balances, m) ==
    IF balances = <<>> THEN 0
    ELSE (IF Head(balances).owner = TARGET_WALLET /\ Head(balances).mint = m
          THEN OrZero(Head(balances).uiAmount) ELSE 0) + Holding(Tail(balances), m)

(***************************************************************************)
(* C6  Only the watched wallet's holdings are reported: every recorded     *)
(* per-asset delta and every per-asset line names a mint that some         *)
(* post-state entry owned by the watched wallet carries; a mint that only  *)
(* other wallets' entries carry gets none, whatever its amounts.           *)
(***************************************************************************)
C6_OnlyWatchedWallet ==
    \A t \in Tasks : Processed(t) =>
        /\ \A i \in 1..Len(tokenChanges[t]) :
             OwnedEntries(t, tokenChanges[t][i].mint) # {}
        /\ \A i \in 1..Len(lines[t]) :
             IsTokenLine(lines[t][i]) => OwnedEntries(t, lines[t][i].asset) # {}

\* another wallet's account of mint m changed, the wallet has no entry of m,
\* and the wallet's own change of another mint was recorded
C6_Witness ==
    \E t \in Tasks : \E i \in 1..Len(PostOf(t)) :
        /\ Processed(t)
        /\ PostOf(t)[i].owner # TARGET_WALLET
        /\ ChangeOfEntry(t, i) # 0
        /\ OwnedEntries(t, PostOf(t)[i].mint) = {}
        /\ DeltasOf(t, PostOf(t)[i].mint) = {}
        /\ tokenChanges[t] # <<>>

(***************************************************************************)
(* C7  (as claimed) two post-state entries of the watched wallet with the  *)
(* same mint: exactly one delta is recorded for the mint and its change is *)
(* the change of the later entry, also when that change is zero.           *)
(***************************************************************************)
C7_LaterEntryAlwaysWins ==
    \A t \in Tasks : \A m \in Mints :
        (Processed(t) /\ Cardinality(OwnedEntries(t, m)) = 2) =>
            /\ Cardinality(DeltasOf(t, m)) = 1
            /\ \A d \in DeltasOf(t, m) :
                 tokenChanges[t][d].change = ChangeOfEntry(t, MaxOf(OwnedEntries(t, m)))

(***************************************************************************)
(* C7  (amended) for every mint, the recorded delta is the change of the   *)
(* last of the wallet's entries of that mint whose change is not zero;     *)
(* if all of them are unchanged no delta is recorded for the mint.         *)
(***************************************************************************)
C7_LastNonZeroWins ==
    \A t \in Tasks : \A m \in Mints :
        Processed(t) =>
            LET NZ == {i \in OwnedEntries(t, m) : ChangeOfEntry(t, i) # 0}
            IN  IF NZ = {} THEN DeltasOf(t, m) = {}
                ELSE /\ Cardinality(DeltasOf(t, m)) = 1
                     /\ \A d \in DeltasOf(t, m) :
                          tokenChanges[t][d].change = ChangeOfEntry(t, MaxOf(NZ))

\* two entries of one mint with different non-zero changes: the later one's
\* change is the one recorded
C7_Witness ==
    \E t \in Tasks : \E m \in Mints :
        /\ Processed(t)
        /\ Cardinality(OwnedEntries(t, m)) = 2
        /\ LET a == MinOf(OwnedEntries(t, m))
               b == MaxOf(OwnedEntries(t, m))
           IN  /\ ChangeOfEntry(t, a) # 0
               /\ ChangeOfEntry(t, b) # 0
               /\ ChangeOfEntry(t, a) # ChangeOfEntry(t, b)
               /\ Len(tokenChanges[t]) = 1
               /\ tokenChanges[t][1].change = ChangeOfEntry(t, b)

\* no token account of the transaction changes its mint or its owner
KeepsAccounts(t) ==
    \A i \in 1..Len(PreOf(t)) : \A j \in 1..Len(PostOf(t)) :
        PreOf(t)[i].accountIndex = PostOf(t)[j].accountIndex =>
            /\ PreOf(t)[i].mint = PostOf(t)[j].mint
            /\ PreOf(t)[i].owner = PostOf(t)[j].owner

(***************************************************************************)
(* C8  (as claimed) "Bought" means the watched wallet's holding went up,   *)
(* "Sold" that it went down: the native line against the wallet's own      *)
(* native balance wherever the wallet is in the account list, a token      *)
(* delta against the sum of the wallet's accounts of that mint.  Stated    *)
(* for transactions in which every token account keeps its mint and owner. *)
(***************************************************************************)
C8_SignIsHoldingChange ==
    \A t \in Tasks : (Processed(t) /\ KeepsAccounts(t)) =>
        /\ \A i \in NativeLinesOf(t) :
             LET w == tx[t].meta.walletIndex + 1
                 pre == tx[t].meta.preBalances[w]
                 post == tx[t].meta.postBalances[w]
             IN  IF lines[t][i].action = "Bought" THEN post > pre ELSE post < pre
        /\ \A i \in 1..Len(tokenChanges[t]) :
             LET m == tokenChanges[t][i].mint
                 pre == Holding(PreOf(t), m)
                 post == Holding(PostOf(t), m)
             IN  IF tokenChanges[t][i].change > 0 THEN post > pre ELSE post < pre

(***************************************************************************)
(* C9  Zero deltas are never emitted: equal native balances at position 0  *)
(* give no native line, no line and no recorded delta has a change of 0,   *)
(* and an entry of the wallet whose amount did not change contributes      *)
(* nothing (the deltas are those of the transaction without it).           *)
(***************************************************************************)
C9_NoZeroDelta ==
    \A t \in Tasks : Processed(t) =>
        /\ tx[t].meta.preBalances[1] = tx[t].meta.postBalances[1] => NativeLinesOf(t) = {}
        /\ \A i \in 1..Len(lines[t]) : lines[t][i].amount # 0
        /\ \A i \in 1..Len(tokenChanges[t]) : tokenChanges[t][i].change # 0
        /\ LET Kept(p) ==
                 \/ p.owner # TARGET_WALLET
                 \/ \E i \in 1..Len(PostOf(t)) : PostOf(t)[i] = p /\ ChangeOfEntry(t, i) # 0
               without == [tx[t].meta EXCEPT
                             !.postTokenBalances = SelectSeq(PostOf(t), Kept)]
           IN  tokenChanges[t] = TokenChanges(without, TARGET_WALLET)

\* equal native balances, an unchanged account of the wallet with a non-zero
\* amount, and an account without pre-state entry whose amount is null
C9_Witness ==
    \E t \in Tasks : \E i, j \in 1..Len(PostOf(t)) :
        /\ Processed(t)
        /\ tx[t].meta.preBalances[1] = tx[t].meta.postBalances[1]
        /\ lines[t] = <<>>
        /\ PostOf(t)[i].owner = TARGET_WALLET
        /\ OrZero(PostOf(t)[i].uiAmount) # 0
        /\ ChangeOfEntry(t, i) = 0
        /\ PostOf(t)[j].owner = TARGET_WALLET
        /\ PostOf(t)[j].uiAmount = <<>>
        /\ \A k \in 1..Len(PreOf(t)) : PreOf(t)[k].accountIndex # PostOf(t)[j].accountIndex
        /\ tokenChanges[t] = <<>>

(***************************************************************************)
(* Vocabulary of the resolver properties                                   *)
(***************************************************************************)
\* this step starts a resolve of task t: the loop of
\* processTransactionForTrades enters an entry of the changes
StartsResolve(t) ==
    /\ pc[t] \in {"awaitTx", "awaitResolve"}
    /\ pc'[t] \in {"awaitPDA", "awaitResolve"}
    /\ pos'[t] # pos[t]
\* the identifier of the resolve that this step starts
StartedMint(t) == tokenChanges'[t][pos'[t]].mint
\* this step is the return of the metadata fetch of task t with "absent"
MetadataAbsent(t) == pc[t] = "awaitMeta" /\ pc'[t] # "awaitMeta" /\ why'[t] = "absent"

\* the metadata the records of the account store decode to
DecodedName == <<84, 107>>
DecodedSymbol == <<84, 75>>
RealMetadata ==
    {[name |-> DecodedName, symbol |-> DecodedSymbol, decimals |-> d] :
        d \in {0} \cup PrecisionBytes}

C2_FirstResolutionWins ==
    [][\A m \in DOMAIN tokenMetadataCache :
         /\ m \in DOMAIN tokenMetadataCache'
         /\ tokenMetadataCache'[m] = tokenMetadataCache[m]]_vars

(***************************************************************************)
(* C3  Warm-cache idempotence: a resolve of an identifier the cache holds  *)
(* returns exactly the cached value without deriving an address, without   *)
(* a fetch and without changing the cache.                                 *)
(***************************************************************************)
C3_WarmCache ==
    [][\A t \in Tasks :
         (StartsResolve(t) /\ StartedMint(t) \in DOMAIN tokenMetadataCache) =>
            /\ pc'[t] = "awaitResolve"
            /\ ret'[t] = tokenMetadataCache[StartedMint(t)]
            /\ tokenMetadataCache' = tokenMetadataCache
            /\ fetches' = fetches]_vars

\* a task was served both of its assets from the cache: no fetch at all
C3_Witness ==
    \E t \in Tasks :
        /\ pc[t] = "awaitResolve" /\ why[t] = "hit"
        /\ pos[t] = 2
        /\ fetches[t] = 0
        /\ ret[t] = tokenMetadataCache[CurrentMint(t)]

(***************************************************************************)
(* C4  resolve never raises: whatever the derivation, the two fetches and  *)
(* the decoding do, the task is never rejected out of the resolver, and    *)
(* the value returned is the sentinel or metadata assembled from the       *)
(* decoded record.                                                         *)
(***************************************************************************)
C4_NeverRaises ==
    \A t \in Tasks :
        /\ err[t] # "resolve"
        /\ pc[t] = "awaitResolve" => ret[t] \in {Sentinel} \cup RealMetadata
        /\ (pc[t] = "awaitResolve"
              /\ why[t] \in {"derive-error", "absent", "fetch-error", "decode-error",
                             "mint-error"})
             => ret[t] = Sentinel

\* the mint fetch failed or its record was too short for offset 44, after the
\* metadata record had decoded: the resolve still returned, with the sentinel
C4_Witness ==
    \E t \in Tasks :
        /\ pc[t] = "awaitResolve" /\ why[t] = "mint-error"
        /\ fetches[t] = 2
        /\ ret[t] = Sentinel

(***************************************************************************)
(* C5  Graceful degradation: a task that has stopped on a transaction with *)
(* a meta section has emitted exactly one per-asset line for each recorded *)
(* delta, in their order, whatever the resolver returned.                  *)
(***************************************************************************)
C5_OneLinePerDelta ==
    \A t \in Tasks :
        (Finished(t) /\ Processed(t)) =>
            /\ Len(TokenLines(t)) = Len(tokenChanges[t])
            /\ \A i \in 1..Len(TokenLines(t)) :
                 TokenLines(t)[i].asset = tokenChanges[t][i].mint

(***************************************************************************)
(* C10  Abort on a missing transaction or a missing meta section: the      *)
(* task reports the error and stops, with no line, no account-store fetch, *)
(* the cache unchanged and every other task left as it was.                *)
(***************************************************************************)
C10_AbortOnMissing ==
    [][\A t \in Tasks :
         (/\ pc[t] = "awaitTx"
          /\ pc'[t] # "awaitTx"
          /\ err'[t] # "TransactionFetch"
          /\ ~(tx'[t].found /\ tx'[t].hasMeta)) =>
            /\ pc'[t] = "done"
            /\ err'[t] = IF tx'[t].found THEN "MissingTransactionMeta"
                         ELSE "TransactionNotFound"
            /\ lines'[t] = <<>>
            /\ tokenChanges'[t] = <<>>
            /\ fetches' = fetches
            /\ tokenMetadataCache' = tokenMetadataCache
            /\ \A u \in Tasks \ {t} : Local(u)' = Local(u)]_vars

\* one task stopped on a missing transaction or a missing meta section while
\* another one is in the middle of a resolve
C10_Witness ==
    \E t, u \in Tasks :
        /\ t # u
        /\ pc[t] = "done" /\ err[t] \in {"TransactionNotFound", "MissingTransactionMeta"}
        /\ lines[t] = <<>> /\ fetches[t] = 0
        /\ InResolve(u) /\ fetches[u] > 0

(***************************************************************************)
(* Vocabulary of the decoder's properties                                  *)
(***************************************************************************)
\* the declared lengths L1 and L2 of a buffer that holds them
DeclaredL1(b) == readUInt32LE(b, METADATA_HEADER_LEN)
DeclaredL2(b) == readUInt32LE(b, METADATA_HEADER_LEN + 4 + DeclaredL1(b))
HasL1(b) == Len(b) >= METADATA_HEADER_LEN + 4
HasL2(b) == HasL1(b) /\ Len(b) >= METADATA_HEADER_LEN + 4 + DeclaredL1(b) + 4
\* shorter than 65 + 4 + L1 + 4 + L2, or too short to declare L1 or L2
TooShort(b) ==
    \/ ~HasL2(b)
    \/ Len(b) < METADATA_HEADER_LEN + 4 + DeclaredL1(b) + 4 + DeclaredL2(b)
\* the decoder has run on the buffer
Decoded == decoded.stage # "input"

(***************************************************************************)
(* C11  Decoder length check: decoding fails for every buffer shorter than *)
(* 65 + 4 + L1 + 4 + L2 bytes: one too short for either length field, one  *)
(* with fewer than L1 name bytes, one with fewer than L2 symbol bytes.     *)
(***************************************************************************)
C11_ShortBufferFails ==
    (Decoded /\ TooShort(data)) => decoded.stage = "threw"

\* the declared name and symbol bytes of a buffer that holds all of them
NameBytes(b) ==
    SubSeq(b, METADATA_HEADER_LEN + 4 + 1, METADATA_HEADER_LEN + 4 + DeclaredL1(b))
SymbolBytes(b) ==
    SubSeq(b, METADATA_HEADER_LEN + 4 + DeclaredL1(b) + 4 + 1,
           METADATA_HEADER_LEN + 4 + DeclaredL1(b) + 4 + DeclaredL2(b))
\* positions of the bytes of s that are not NUL, not white space
NonNul(s) == {i \in 1..Len(s) : s[i] # 0}
NonBlank(s) == {i \in 1..Len(s) : s[i] \notin WhiteSpace}
\* s from its first to its last non-blank byte
Trimmed(s) == IF NonBlank(s) = {} THEN <<>> ELSE SubSeq(s, MinOf(NonBlank(s)), MaxOf(NonBlank(s)))
\* s without the run of NUL bytes at its end
WithoutPadding(s) == SubSeq(s, 1, MaxOf({0} \cup NonNul(s)))
\* s without any of its NUL bytes
WithoutNul(s) == [i \in 1..Cardinality(NonNul(s)) |->
                    s[CHOOSE j \in NonNul(s) : Cardinality({k \in NonNul(s) : k <= j}) = i]]
\* the buffer was well formed and both post-processing steps have run
PostProcessed == decoded.stage = "trimmed" /\ ~TooShort(data)

(***************************************************************************)
(* C12  (as claimed) for a well-formed buffer the decoded name and symbol  *)
(* are the declared bytes with only the trailing NUL padding removed and   *)
(* surrounding white space trimmed: a NUL byte that is not trailing        *)
(* padding is preserved.                                                   *)
(***************************************************************************)
C12_OnlyPaddingRemoved ==
    PostProcessed =>
        /\ decoded.name = Trimmed(WithoutPadding(NameBytes(data)))
        /\ decoded.symbol = Trimmed(WithoutPadding(SymbolBytes(data)))

(***************************************************************************)
(* C12  (amended) for a well-formed buffer the decoded name and symbol are *)
(* the declared bytes with every NUL byte removed, wherever it stands, and *)
(* then the surrounding white space trimmed; all other bytes are kept in   *)
(* order, and the result depends on the bytes of the two declared fields   *)
(* only, not on the header or on what follows the symbol.                  *)
(***************************************************************************)
C12_EveryNulRemoved ==
    PostProcessed =>
        /\ decoded.name = Trimmed(WithoutNul(NameBytes(data)))
        /\ decoded.symbol = Trimmed(WithoutNul(SymbolBytes(data)))

\* a record with a non-zero header byte and bytes after the symbol, whose
\* name has a NUL before its text and whose symbol ends in white space
C12_Witness ==
    /\ PostProcessed
    /\ data[1] # 0
    /\ Len(data) > METADATA_HEADER_LEN + 4 + DeclaredL1(data) + 4 + DeclaredL2(data)
    /\ NameBytes(data) = <<0, 84>>
    /\ SymbolBytes(data) = <<84, 32>>
    /\ decoded.name = <<84>>
    /\ decoded.symbol = <<84>>

\* the post-state entry that inserted mint m into the change mapping: the
\* first entry of m owned by the watched wallet whose balance changed
Inserting(t, m) == {i \in OwnedEntries(t, m) : ChangeOfEntry(t, i) # 0}
FirstInsertion(t, m) == IF Inserting(t, m) = {} THEN 0 ELSE MinOf(Inserting(t, m))

(***************************************************************************)
(* C13  Emission order: within one transaction the native line, if any,    *)
(* comes before every per-asset line, and the per-asset lines come in the  *)
(* order in which their mints were first inserted into the change mapping; *)
(* a later entry that overwrites a mint's change does not move it.         *)
(***************************************************************************)
C13_EmissionOrder ==
    \A t \in Tasks : Processed(t) =>
        \A i, j \in 1..Len(lines[t]) :
            /\ (~IsTokenLine(lines[t][i]) /\ IsTokenLine(lines[t][j])) => i < j
            /\ (IsTokenLine(lines[t][i]) /\ IsTokenLine(lines[t][j]) /\ i < j) =>
                  /\ FirstInsertion(t, lines[t][i].asset) > 0
                  /\ FirstInsertion(t, lines[t][i].asset)
                       < FirstInsertion(t, lines[t][j].asset)

\* the wallet's accounts 2, 3 and 4 hold A, B and A and all three changed:
\* the entry of account 4 overwrote the change of A, and the task wrote the
\* native line, then the line of A, then the line of B
C13_Witness ==
    \E t \in Tasks :
        /\ Processed(t)
        /\ pc[t] = "done"
        /\ Len(PostOf(t)) = 3
        /\ \A i \in 1..3 : ChangeOfEntry(t, i) # 0
        /\ PostOf(t)[1].mint = "A" /\ PostOf(t)[2].mint = "B" /\ PostOf(t)[3].mint = "A"
        /\ Len(lines[t]) = 3
        /\ lines[t][1].asset = "SOL"
        /\ lines[t][2].asset = "A"
        /\ lines[t][3].asset = "B"

\* what the metadata records of the account store decode to, untrimmed
DecodableMetadata ==
    {[name |-> decodeMetaplexMetadata(r).name, symbol |-> decodeMetaplexMetadata(r).symbol] :
        r \in {q \in MetadataRecords : ~decodeMetaplexMetadata(q).threw}}
\* this step of task t issues a getAccountInfo call
IssuesFetch(t) == fetches'[t] # fetches[t]

(***************************************************************************)
(* C14  Resolver fetch protocol on a cache miss: the metadata record is    *)
(* fetched first (the only fetch issued from the address derivation); the  *)
(* mint record is fetched only when the metadata fetch returned a record   *)
(* that decoded; when the metadata record is absent or does not decode no  *)
(* fetch is issued and the resolve returns the sentinel; the stages of a   *)
(* resolve follow one another without going back, each issuing at most one *)
(* fetch, so a resolve issues at most two.                                 *)
(***************************************************************************)
C14_FetchProtocol ==
    [][\A t \in Tasks :
         /\ IssuesFetch(t) =>
               /\ fetches'[t] = fetches[t] + 1
               /\ \/ pc[t] = "awaitPDA" /\ pc'[t] = "awaitMeta"
                  \/ pc[t] = "awaitMeta" /\ pc'[t] = "awaitMint"
         /\ (pc[t] = "awaitPDA" /\ pc'[t] # "awaitPDA") =>
               pc'[t] \in {"awaitMeta", "awaitResolve"}
         /\ (pc[t] = "awaitMeta" /\ pc'[t] # "awaitMeta") =>
               /\ pc'[t] \in {"awaitMint", "awaitResolve"}
               /\ pc'[t] = "awaitMint" =>
                     IssuesFetch(t) /\ metadata'[t] \in DecodableMetadata
               /\ why'[t] \in {"absent", "decode-error"} =>
                     /\ pc'[t] = "awaitResolve"
                     /\ ret'[t] = Sentinel
                     /\ ~IssuesFetch(t)
         /\ (pc[t] = "awaitMint" /\ pc'[t] # "awaitMint") =>
               pc'[t] = "awaitResolve" /\ ~IssuesFetch(t)
         /\ (pc[t] = "awaitResolve" /\ pc'[t] # "awaitResolve") =>
               pc'[t] \in {"awaitPDA", "done", "rejected"} /\ ~IssuesFetch(t)
    ]_vars

\* a task whose first resolve ended after the metadata fetch with the
\* sentinel (one fetch) and whose second resolve fetched both records
C14_Witness ==
    \E t \in Tasks :
        /\ pc[t] = "awaitResolve"
        /\ pos[t] = 2
        /\ why[t] = "resolved"
        /\ fetches[t] = 3
        /\ TokenLines(t)[1].name = StrUnknown

\* the value the resolver returns and what it stores when the mint fetch,
\* issued with the decoded metadata m, settles with accountInfo
MintOutcome(accountInfo, m) == TryCatch(OnMintInfo(accountInfo, m))
\* the decoded name and symbol, trimmed, with precision p
Assembled(m, p) == [name |-> Trimmed(m.name), symbol |-> Trimmed(m.symbol), decimals |-> p]
\* this step is the return of the mint fetch of task t
MintSettles(t) == pc[t] = "awaitMint" /\ pc'[t] # "awaitMint"

(***************************************************************************)
(* C15  Precision default: when the mint fetch returns absent, the resolve *)
(* returns the decoded, trimmed name and symbol with precision 0 and       *)
(* stores that value in the cache; when it returns a record that has a     *)
(* byte at offset 44, the precision is that byte.  The return of a mint    *)
(* fetch is one of the outcomes so described (or the sentinel, for a       *)
(* failed fetch or a record without the byte).                             *)
(***************************************************************************)
C15_PrecisionDefault ==
    [][\A t \in Tasks : MintSettles(t) =>
         /\ \A accountInfo \in MintResponses :
               LET r == MintOutcome(accountInfo, metadata[t])
               IN  /\ accountInfo.kind = "absent" =>
                         r.value = Assembled(metadata[t], 0) /\ r.store
                   /\ (accountInfo.kind = "account"
                         /\ Len(accountInfo.data) > MINT_DECIMALS_OFFSET) =>
                         /\ r.value = Assembled(metadata[t],
                                                accountInfo.data[MINT_DECIMALS_OFFSET + 1])
                         /\ r.store
         /\ \E accountInfo \in MintResponses :
               LET r == MintOutcome(accountInfo, metadata[t])
               IN  /\ ret'[t] = r.value
                   /\ r.store =>
                         /\ CurrentMint(t) \in DOMAIN tokenMetadataCache'
                         /\ tokenMetadataCache'[CurrentMint(t)] = r.value
                   /\ ~r.store => tokenMetadataCache' = tokenMetadataCache
    ]_vars

\* the metadata record decoded and the mint record was absent: the resolve
\* returned the trimmed name and symbol with precision 0 and the cache has it
C15_Witness ==
    \E t \in Tasks :
        /\ pc[t] = "awaitResolve"
        /\ why[t] = "resolved"
        /\ ret[t] = [name |-> DecodedName, symbol |-> DecodedSymbol, decimals |-> 0]
        /\ CurrentMint(t) \in DOMAIN tokenMetadataCache
        /\ tokenMetadataCache[CurrentMint(t)] = ret[t]

\* the fetches of task t return and the event loop runs what they resume
FetchesReturn(t) == WF_vars(Settle(t, StallTxs))

(***************************************************************************)
(* C16  Task isolation under a stalled fetch: whichever task s it is whose *)
(* fetches need never return, every other task, whose own fetches return,  *)
(* still eventually finishes: it has written its lines, reported its error *)
(* or rejected.                                                            *)
(***************************************************************************)
C16_OthersFinish ==
    \A s \in Tasks :
        (\A t \in Tasks \ {s} : FetchesReturn(t)) => (\A t \in Tasks \ {s} : <>Finished(t))

\* a task is suspended in the metadata fetch of token A while another
\* task, started after it, has resolved A and written its lines
C16_Witness ==
    \E s \in Tasks : \E t \in Tasks :
        /\ s < t
        /\ pc[s] = "awaitMeta"
        /\ CurrentMint(s) = "A"
        /\ pc[t] = "done"
        /\ Len(TokenLines(t)) = 1
        /\ TokenLines(t)[1].asset = "A"

\* the distinct mints of the transaction of task t that changed: those with
\* an entry owned by the watched wallet whose balance changed
ChangedAssets(t) ==
    IF Processed(t) THEN Cardinality({m \in Mints : Inserting(t, m) # {}}) ELSE 0

(***************************************************************************)
(* C17  Termination of a processing task: when every fetch it issues       *)
(* returns, a started task eventually finishes; it fetches its transaction *)
(* once (it never goes back to the transaction fetch) and it issues at     *)
(* most two account fetches for each distinct changed asset of the         *)
(* transaction; a finished task takes no further step.                     *)
(***************************************************************************)
C17_Terminates ==
    /\ \A t \in Tasks : (pc[t] = "awaitTx") ~> Finished(t)
    /\ [][\A t \in Tasks :
            /\ fetches'[t] <= 2 * ChangedAssets(t)'
            /\ pc[t] \notin {"idle", "awaitTx"} => pc'[t] # "awaitTx"
            /\ Finished(t) => Local(t)' = Local(t)
       ]_vars

\* a finished task whose transaction changed two assets and which issued
\* all four account fetches
C17_Witness ==
    \E t \in Tasks :
        /\ pc[t] = "done"
        /\ ChangedAssets(t) = 2
        /\ fetches[t] = 4
        /\ Len(TokenLines(t)) = 2

\* this step changes the cache
CacheWritten == tokenMetadataCache' # tokenMetadataCache
\* this step is the end of the mint fetch of a resolve of task t, which
\* leaves the resolver
EndsResolve(t) == pc[t] = "awaitMint" /\ pc'[t] = "awaitResolve"
\* this step is the transaction fetch or the delta computation of task t
FetchesOrComputes(t) == pc[t] \in {"idle", "awaitTx"} /\ pc'[t] # pc[t]

(***************************************************************************)
(* C18  Cache frame condition: the cache is written only by the last step  *)
(* of a resolve (so at most once per resolve) and only under the           *)
(* identifier being resolved; every other entry keeps its value, no entry  *)
(* is removed, and the transaction fetch and the delta computation leave   *)
(* the cache as it is: the set of cached identifiers only grows.           *)
(***************************************************************************)
C18_CacheFrame ==
    [][/\ DOMAIN tokenMetadataCache \subseteq DOMAIN tokenMetadataCache'
       /\ CacheWritten =>
             \E t \in Tasks :
                 /\ EndsResolve(t)
                 /\ DOMAIN tokenMetadataCache'
                      = DOMAIN tokenMetadataCache \cup {CurrentMint(t)}
                 /\ \A k \in DOMAIN tokenMetadataCache \ {CurrentMint(t)} :
                       tokenMetadataCache'[k] = tokenMetadataCache[k]
       /\ (\E t \in Tasks : FetchesOrComputes(t)) => ~CacheWritten
    ]_vars

\* a resolve of B has just stored its value while the entry of A was there
C18_Witness ==
    \E t \in Tasks :
        /\ pc[t] = "awaitResolve"
        /\ why[t] = "resolved"
        /\ CurrentMint(t) = "B"
        /\ DOMAIN tokenMetadataCache = {"A", "B"}
        /\ tokenMetadataCache["B"] = ret[t]

\* pre-state entry j of task t is the one post-state entry i is paired
\* with: it names the account of i and no entry before it does
IsPairOf(t, j, i) ==
    /\ PreOf(t)[j].accountIndex = PostOf(t)[i].accountIndex
    /\ \A k \in 1..(j - 1) : PreOf(t)[k].accountIndex # PostOf(t)[i].accountIndex
\* the balance post-state entry i started from: 0 when it has no pair
PairedPre(t, i) ==
    LET J == {j \in 1..Len(PreOf(t)) : IsPairOf(t, j, i)}
    IN  IF J = {} THEN 0 ELSE OrZero(PreOf(t)[CHOOSE j \in J : TRUE].uiAmount)
PairedChange(t, i) == OrZero(PostOf(t)[i].uiAmount) - PairedPre(t, i)
\* the post-state entries of the watched wallet
Owned(t) == {i \in 1..Len(PostOf(t)) : PostOf(t)[i].owner = TARGET_WALLET}

(***************************************************************************)
(* C19  Pre/post pairing: every recorded delta is the change of a          *)
(* post-state entry of the watched wallet carrying the delta's mint, taken *)
(* against the first pre-state entry with the same accountIndex, whatever  *)
(* that entry's owner or mint, or against 0 when there is none; every such *)
(* entry whose change is not zero has its mint among the deltas; a mint    *)
(* that only pre-state entries carry gets no delta.                        *)
(***************************************************************************)
C19_Pairing ==
    \A t \in Tasks : Processed(t) =>
        /\ \A d \in 1..Len(tokenChanges[t]) :
              \E i \in Owned(t) :
                  /\ PostOf(t)[i].mint = tokenChanges[t][d].mint
                  /\ PairedChange(t, i) = tokenChanges[t][d].change
                  /\ \A k \in Owned(t) :
                        (k > i /\ PostOf(t)[k].mint = PostOf(t)[i].mint) =>
                            PairedChange(t, k) = 0
        /\ \A i \in Owned(t) :
              PairedChange(t, i) # 0 => DeltasOf(t, PostOf(t)[i].mint) # {}
        /\ \A j \in 1..Len(PreOf(t)) :
              (\A i \in Owned(t) : PostOf(t)[i].mint # PreOf(t)[j].mint) =>
                  DeltasOf(t, PreOf(t)[j].mint) = {}

\* the pre-state names account 2 twice, first as another wallet's account
\* of B holding 1, then as the wallet's account of A holding 0, and has the
\* wallet's account 3 of A holding 1; the post-state has only the wallet's
\* account 2, of B, holding 0: the delta of B is 0 - 1 and A has no delta
C19_Witness ==
    \E t \in Tasks :
        /\ Processed(t)
        /\ Len(PreOf(t)) = 3
        /\ PreOf(t)[1] = [accountIndex |-> 2, owner |-> OtherWallet, mint |-> "B",
                          uiAmount |-> <<1>>]
        /\ PreOf(t)[2] = [accountIndex |-> 2, owner |-> TARGET_WALLET, mint |-> "A",
                          uiAmount |-> <<0>>]
        /\ PreOf(t)[3] = [accountIndex |-> 3, owner |-> TARGET_WALLET, mint |-> "A",
                          uiAmount |-> <<1>>]
        /\ Len(PostOf(t)) = 1
        /\ PostOf(t)[1] = [accountIndex |-> 2, owner |-> TARGET_WALLET, mint |-> "B",
                           uiAmount |-> <<0>>]
        /\ Len(tokenChanges[t]) = 1
        /\ tokenChanges[t][1].mint = "B"
        /\ tokenChanges[t][1].change = 0 - 1

====
